---- MODULE Spec2Model ----
(***************************************************************************)
(* Model of the Solana payout action: main() of the action driver and the  *)
(* SolanaPayoutService it drives (constructor, initialize, executePayment, *)
(* the native and the token transfer paths, the balance guards, the        *)
(* submission and the confirmation polling loop).                          *)
(*                                                                         *)
(* JavaScript numbers are IEEE-754 doubles.  The balance guards divide     *)
(* integer lamports by LAMPORTS_PER_SOL and add and compare the quotients, *)
(* so the model carries a small software implementation of the double      *)
(* operations the code uses (correctly rounded division of integers,       *)
(* addition, multiplication by an integer, comparison, floor, ceil).       *)
(***************************************************************************)
EXTENDS Integers, Sequences, FiniteSets, TLC

----------------------------------------------------------------------------
(* IEEE-754 binary64, non-negative finite values.                          *)
(* A value is [k, e, m]: k = "nan", "zero" or "num"; for "num" the value   *)
(* is the sum of m[i] * 2^(e + 1 - i), m has MantissaBits bits, m[1] = 1.  *)

MantissaBits == 53

NaN == [k |-> "nan", e |-> 0, m |-> << >>]

Zero == [k |-> "zero", e |-> 0, m |-> << >>]

Pow2(k) == 2 ^ k

(* The w lowest bits of the integer q, most significant first.             *)
LowBits(q, w) == [i \in 1..w |-> (q \div Pow2(w - i)) % 2]

StripZeros(b) ==
  IF \A i \in 1..Len(b) : b[i] = 0 THEN << >>
  ELSE LET f == CHOOSE i \in 1..Len(b) : b[i] = 1 /\ \A j \in 1..(i - 1) : b[j] = 0
       IN SubSeq(b, f, Len(b))

IntWidth == 31

IntBits(q) == StripZeros(LowBits(q, IntWidth))

RECURSIVE BitsInt(_)
BitsInt(b) ==
  IF Len(b) = 0 THEN 0 ELSE 2 * BitsInt(SubSeq(b, 1, Len(b) - 1)) + b[Len(b)]

IncBits(b) ==
  IF \A i \in 1..Len(b) : b[i] = 1
  THEN <<1>> \o [i \in 1..Len(b) |-> 0]
  ELSE LET z == CHOOSE i \in 1..Len(b) : b[i] = 0 /\ \A j \in (i + 1)..Len(b) : b[j] = 1
       IN [i \in 1..Len(b) |-> IF i < z THEN b[i] ELSE IF i = z THEN 1 ELSE 0]

(* Round to nearest, ties to even: bits is the exact leading part of the   *)
(* value (first bit 1, of exponent e), sticky tells whether anything       *)
(* non-zero follows it.                                                    *)
RoundBits(bits, e, sticky) ==
  IF Len(bits) <= MantissaBits
  THEN [k |-> "num", e |-> e,
        m |-> bits \o [i \in 1..(MantissaBits - Len(bits)) |-> 0]]
  ELSE LET m    == SubSeq(bits, 1, MantissaBits)
           g    == bits[MantissaBits + 1]
           rest == sticky \/ \E i \in (MantissaBits + 2)..Len(bits) : bits[i] = 1
           up   == g = 1 /\ (rest \/ m[MantissaBits] = 1)
           inc  == IncBits(m)
       IN IF ~up THEN [k |-> "num", e |-> e, m |-> m]
          ELSE IF Len(inc) > MantissaBits
               THEN [k |-> "num", e |-> e + 1, m |-> SubSeq(inc, 1, MantissaBits)]
               ELSE [k |-> "num", e |-> e, m |-> inc]

(* d = OddPart(d) * 2^TwoExp(d).                                           *)
TwoExp(d) == CHOOSE k \in 0..IntWidth : d % Pow2(k) = 0 /\ d % Pow2(k + 1) # 0

OddPart(d) == d \div Pow2(TwoExp(d))

(* The fraction r / d is expanded 10 bits at a time, 8 chunks in all:      *)
(* enough for the leading zeros of any r / d with d < 2^21 and for the     *)
(* significant bits that follow them.  Remainder(r, d, j) is what is left  *)
(* of r after j chunks.                                                    *)
RECURSIVE Remainder(_, _, _)
Remainder(r, d, j) ==
  IF j = 0 THEN r ELSE (Remainder(r, d, j - 1) * 1024) % d

FracBits(r, d) ==
  [i \in 1..80 |->
     LET j == (i - 1) \div 10
         c == (Remainder(r, d, j) * 1024) \div d
     IN (c \div Pow2(9 - ((i - 1) % 10))) % 2]

(* n / d for integers n >= 0, d > 0 whose odd part is below 2^21, as the   *)
(* double the division operator returns: the quotient by the odd part of   *)
(* d, correctly rounded, scaled by the power of two of d.                  *)
DivInts(n, d) ==
  IF n = 0 THEN Zero
  ELSE LET o    == OddPart(d)
           all  == LowBits(n \div o, IntWidth) \o FracBits(n % o, o)
           bits == StripZeros(all)
           top  == IntWidth - 1 - (Len(all) - Len(bits)) - TwoExp(d)
       IN RoundBits(bits, top, Remainder(n % o, o, 8) # 0)

FromInt(n) == DivInts(n, 1)

(* The bit of x at binary position p (weight 2^p).                         *)
BitAt(x, p) ==
  IF x.k = "num" /\ p <= x.e /\ p > x.e - MantissaBits THEN x.m[x.e + 1 - p] ELSE 0

(* Carry into position i (1 = most significant) of a + b: some lower       *)
(* position generates a carry and every position between propagates it.    *)
CarryIn(a, b, i) ==
  \E j \in (i + 1)..Len(a) :
     /\ a[j] + b[j] = 2
     /\ \A h \in (i + 1)..(j - 1) : a[h] + b[h] = 1

AddBits(a, b) ==
  [i \in 1..(Len(a) + 1) |->
     IF i = 1 THEN (a[1] + b[1] + (IF CarryIn(a, b, 1) THEN 1 ELSE 0)) \div 2
     ELSE (a[i - 1] + b[i - 1] + (IF CarryIn(a, b, i - 1) THEN 1 ELSE 0)) % 2]

(* x + y for non-negative doubles.                                         *)
FAdd(x, y) ==
  IF x.k = "nan" \/ y.k = "nan" THEN NaN
  ELSE IF x.k = "zero" THEN y
  ELSE IF y.k = "zero" THEN x
  ELSE LET top == IF x.e > y.e THEN x.e ELSE y.e
           bot == (IF x.e < y.e THEN x.e ELSE y.e) - MantissaBits + 1
           n   == top - bot + 1
           xa  == [i \in 1..n |-> BitAt(x, top + 1 - i)]
           ya  == [i \in 1..n |-> BitAt(y, top + 1 - i)]
           s   == AddBits(xa, ya)
           t   == StripZeros(s)
       IN RoundBits(t, top + 1 - (Len(s) - Len(t)), FALSE)

(* The exact product of the double x and the integer k > 0 (odd part      *)
(* below 2^21): the mantissa, in six 10-bit limbs, times the odd part of   *)
(* k, carries propagated limb by limb.  The result is the 81 product bits  *)
(* and the exponent of the first of them.                                  *)
Limb(x, i) ==
  BitsInt([j \in 1..10 |-> BitAt(x, x.e - MantissaBits + 1 + 10 * i + (10 - j))])

RECURSIVE LimbCarry(_, _, _)
LimbCarry(x, o, i) ==
  IF i < 0 THEN 0 ELSE (Limb(x, i) * o + LimbCarry(x, o, i - 1)) \div 1024

LimbDigit(x, o, i) == (Limb(x, i) * o + LimbCarry(x, o, i - 1)) % 1024

MulBits(x, k) ==
  LET o == OddPart(k)
  IN [bits |-> LowBits(LimbCarry(x, o, 5), 21)
                 \o [i \in 1..60 |->
                       (LimbDigit(x, o, 5 - ((i - 1) \div 10))
                          \div Pow2(9 - ((i - 1) % 10))) % 2],
      top  |-> x.e - MantissaBits + 1 + TwoExp(k) + 80]

(* x * k for a non-negative double x and an integer k > 0.                 *)
FMulInt(x, k) ==
  IF x.k # "num" THEN x
  ELSE LET p == MulBits(x, k)
           t == StripZeros(p.bits)
       IN RoundBits(t, p.top - (Len(p.bits) - Len(t)), FALSE)

LexLess(a, b) ==
  \E i \in 1..Len(a) : a[i] < b[i] /\ \A j \in 1..(i - 1) : a[j] = b[j]

(* x < y for non-negative doubles; false when either is NaN.               *)
FLess(x, y) ==
  IF x.k = "nan" \/ y.k = "nan" THEN FALSE
  ELSE IF y.k = "zero" THEN FALSE
  ELSE IF x.k = "zero" THEN TRUE
  ELSE x.e < y.e \/ (x.e = y.e /\ LexLess(x.m, y.m))

(* Math.floor of a non-negative double below 2^31, as an integer.          *)
FFloor(x) ==
  IF x.k # "num" \/ x.e < 0 THEN 0
  ELSE BitsInt([i \in 1..(x.e + 1) |-> BitAt(x, x.e + 1 - i)])

HasFraction(x) ==
  x.k = "num" /\ \E i \in 1..MantissaBits : x.m[i] = 1 /\ x.e + 1 - i < 0

(* Math.ceil of a non-negative double below 2^31, as an integer.           *)
FCeil(x) == IF HasFraction(x) THEN FFloor(x) + 1 ELSE FFloor(x)

----------------------------------------------------------------------------
(* Program constants.                                                      *)

LAMPORTS_PER_SOL == 1000000000

NETWORK_URLS == {"mainnet-beta", "devnet", "testnet"}

DefaultNetwork == "mainnet-beta"

DefaultTimeout == 300 * 1000

TOKEN_ACCOUNT_CREATION_COST == 3000000

----------------------------------------------------------------------------
(* Bounds of the explored inputs and network answers.                      *)

\* amounts are decimal strings of 1..MaxAmountNano billionths of a unit
MaxAmountNano == 1

\* the longest explicit timeout input, in seconds
MaxSeconds == 2

\* balances the network may report lie up to BalanceSlack above a requirement
BalanceSlack == 1

\* token amounts of the amount-conversion runs are 1..MaxTokenNano billionths
MaxTokenNano == 15

----------------------------------------------------------------------------
(* Inputs of one invocation: the environment variable and the action       *)
(* inputs, as the strings the host hands over.  An amount or timeout       *)
(* string is "absent" (empty), "text" (not a number) or a decimal numeral. *)

Secrets == {"", "malformed", "validSecret"}

Recipients == {"", "notBase58", "RecipientOffCurve", "RecipientOnCurve"}

AmountInputs ==
  {[kind |-> "absent", nano |-> 0], [kind |-> "text", nano |-> 0]}
    \cup {[kind |-> "dec", nano |-> n] : n \in -1..MaxAmountNano}

TokenInputs == {"", "SOL", "sol", "MintA", "notAKey"}

NetworkInputs == {"", "devnet", "nonet"}

TimeoutInputs ==
  {[kind |-> "absent", ms |-> 0], [kind |-> "text", ms |-> 0]}
    \cup {[kind |-> "int", ms |-> t] :
            t \in {-1, 0, 1, 1000, 1001, 1000 * MaxSeconds}}

Inputs ==
  [secret : Secrets, recipient : Recipients, amount : AmountInputs,
   token : TokenInputs, network : NetworkInputs, timeout : TimeoutInputs]

\* well-formed token payouts over a wider range of amounts
TokenPayoutInputs ==
  [secret : {"validSecret"}, recipient : {"RecipientOnCurve"},
   amount : {[kind |-> "dec", nano |-> n] : n \in 1..MaxTokenNano},
   token : {"MintA"}, network : {"devnet"},
   timeout : {[kind |-> "int", ms |-> 1000]}]

----------------------------------------------------------------------------
(* Answers of the ledger network (the RPC node).                           *)

Signatures == {"sigA", "sigB"}

Fees == {5000, 10000}

\* getFeeForMessage: value null, 0 or a fee in lamports
FeeAnswers == {-1, 0} \cup Fees

NullFee == -1

\* getBalance: lamports around each requirement a guard can compute
BalanceAnswers ==
  {f + a + d : f \in Fees, a \in 0..MaxAmountNano, d \in (-1)..BalanceSlack}

Decimals == {0, 9}

MinRents == {890880}

\* getTokenAccountBalance: raw units held; uiAmount is null for none
TokenRawAnswers == 0..(MaxTokenNano + 1)

\* the simulation logs a rejected submission comes with; NoLogs for none
SimulationLogs == {"Program log: insufficient lamports"}

NoLogs == ""

\* on-chain errors: a JS string and a JS object
ErrPayloads == {"AccountInUse", "InstructionError"}

NoErr == "null"

NullStatus == [present |-> FALSE, err |-> NoErr, confirmationStatus |-> "undefined"]

StatusAnswers ==
  {NullStatus}
    \cup [present : {TRUE}, err : {NoErr} \cup ErrPayloads,
          confirmationStatus : {"processed", "confirmed", "finalized"}]

----------------------------------------------------------------------------
(* Conversions.                                                            *)

ToUpperCase_Identity(s) == s

\* String.prototype.toUpperCase on the token designators
ToUpperCase(s) ==
  CASE s = "sol"     -> "SOL"
    [] s = "MintA"   -> "MINTA"
    [] s = "notAKey" -> "NOTAKEY"
    [] OTHER         -> s

\* parseFloat: NaN for text, else the double nearest to the numeral; a
\* negative value keeps its magnitude under k = "neg"
ParseFloat(inp) ==
  IF inp.kind # "dec" THEN NaN
  ELSE IF inp.nano < 0
       THEN [DivInts(-inp.nano, LAMPORTS_PER_SOL) EXCEPT !.k = "neg"]
       ELSE DivInts(inp.nano, LAMPORTS_PER_SOL)

\* parseInt
ParseInt(inp) ==
  IF inp.kind # "int" THEN [nan |-> TRUE, v |-> 0] ELSE [nan |-> FALSE, v |-> inp.ms]

\* JSON.stringify on the on-chain error payloads
JSONstringify(err) ==
  CASE err = "AccountInUse"     -> "\"AccountInUse\""
    [] err = "InstructionError" -> "{\"InstructionError\":[0,{\"Custom\":1}]}"
    [] OTHER                    -> "null"

\* new PublicKey(s) succeeds
DecodesToPublicKey(s) == s \in {"RecipientOffCurve", "RecipientOnCurve", "SenderPubKey", "MintA"}

\* PublicKey.isOnCurve
IsOnCurve(s) == s \in {"RecipientOnCurve", "SenderPubKey"}

\* Number.prototype.toLocaleString: three fraction digits, half up; the
\* text is rendered as the count of thousandths
ToLocaleString(x) ==
  IF x.k = "nan" THEN "NaN"
  ELSE IF x.k # "num" THEN "0/1000"
  ELSE LET p == MulBits(x, 1000)
           n == Len(p.bits)
           int == BitsInt(SubSeq(p.bits, IF p.top - 30 > 0 THEN p.top - 29 ELSE 1,
                                 IF p.top + 1 < 0 THEN 0 ELSE p.top + 1))
           half == IF p.top + 2 >= 1 /\ p.top + 2 <= n THEN p.bits[p.top + 2] ELSE 0
       IN ToString(int + half) \o "/1000"

\* template-literal rendering of a number
NumberToString(x) == ToString(x)

----------------------------------------------------------------------------
(* Error messages, as the sequence of their literal and interpolated       *)
(* parts.                                                                  *)

MsgSecretNotSet ==
  <<"Environment variable SENDER_WALLET_SECRET is not set, please set it in the repository secrets">>

MsgInputRequired(name) == <<"Input required and not supplied: ", name>>

MsgAmount == <<"Amount must be a positive number">>

MsgTimeout == <<"Timeout must be a positive number">>

MsgNetwork == <<"Invalid network specified. Must be one of: ", "mainnet-beta, devnet, testnet">>

MsgSecretFormat ==
  <<"Invalid wallet secret format. Please provide a valid base58 encoded private key.">>

MsgRecipientFormat(addr) == <<"Invalid recipient wallet address format: ", addr>>

MsgWalletFormat(addr) == <<"Invalid wallet address format: ", addr>>

MsgInvalidToken(t) ==
  <<"Invalid SPL token: ", t, ". Please provide a valid SPL token address.">>

MsgMintNotInitialized == <<"Token mint information not initialized">>

MsgNoSenderTokenAccount ==
  <<"Sender address does not have an associated token account to complete the transfer">>

MsgCheckExistence(addr) == <<"Failed to check account existence: ", addr>>

MsgFee == <<"Failed to get transaction fee">>

MsgInsufficientSol(network, sol, totalCost, txFeeSol) ==
  <<"Insufficient funds in sender wallet on ", network, " network. Balance: ",
    ToLocaleString(sol), " SOL, Required: ", ToLocaleString(totalCost),
    " SOL (including transaction fee of ", ToLocaleString(txFeeSol), " SOL)">>

MsgInsufficientToken(network, balance, mintAddress, amount) ==
  <<"Insufficient funds in sender token account on ", network, " network. Balance: ",
    balance, " ", mintAddress, ", Required: ", NumberToString(amount), " ", mintAddress>>

MsgSendFailed ==
  <<"Transaction failed to send. Please check the logs for more details.">>

MsgTransactionFailed_Generic(err) == <<"Transaction failed: ", "on-chain error">>

MsgTransactionFailed(err) == <<"Transaction failed: ", JSONstringify(err)>>

MsgNotConfirmed_NoSignature(timeout, signature, commitment) ==
  <<"Transaction not confirmed within ", ToString(timeout),
    " ms. Confirmation status unknown.", " Last confirmation status: ", commitment>>

MsgNotConfirmed(timeout, signature, commitment) ==
  <<"Transaction not confirmed within ", ToString(timeout),
    " ms. Confirmation status unknown. Check signature: ", signature,
    ". Last confirmation status: ", commitment>>

\* an error raised by the RPC client itself
MsgRpc(op) == <<"RPC request failed: ", op>>

----------------------------------------------------------------------------
(* State.                                                                  *)

VARIABLES
  pc,       \* where main() stands: the next step to run
  input,    \* the inputs of this invocation
  svc,      \* the fields of the SolanaPayoutService
  loc,      \* the local variables of the running transfer path
  calls,    \* the network requests issued so far, in order; a run of n
            \* consecutive requests of one kind is kept as one entry
  thrown,   \* the message of the error on its way to main's catch
  out,      \* the outputs written with setOutput
  failed,   \* the message handed to setFailed, if any
  ledger    \* what the ledger network holds of the submitted transaction

vars == <<pc, input, svc, loc, calls, thrown, out, failed, ledger>>


NoMint == [address |-> "", decimals |-> 0, set |-> FALSE]

NoService ==
  [constructed |-> FALSE, amount |-> NaN, token |-> "", network |-> "",
   timeout |-> 0, isTokenTransfer |-> FALSE, mint |-> NoMint,
   senderPubKey |-> "", recipientPubKey |-> ""]

NoTransaction == [signed |-> FALSE, blockhash |-> "", instructions |-> << >>]

\* nothing submitted; a submitted transaction tx is "pending" until the
\* ledger applies or rejects it ("rejected" at once when the simulation of
\* the submission fails), and at records where main() stood when it did
NoLedger == [state |-> "none", at |-> "", tx |-> NoTransaction]

NoLocals ==
  [instructions |-> << >>, transferAmount |-> 0, transaction |-> NoTransaction,
   senderAccountExists |-> "undefined", recipientAccountExists |-> "undefined",
   checkRecipientTokenAccountExists |-> "undefined", txLogs |-> "",
   txFee |-> NullFee, lamports |-> -1, tokenRaw |-> -1, signature |-> "",
   attempts |-> 0, maxAttempts |-> 0, commitment |-> "undefined",
   status |-> NullStatus, queried |-> "", feeFor |-> NoTransaction,
   checked |-> << >>, statusError |-> FALSE, slept |-> 0]

NoOutputs == [written |-> {}, success |-> "", error |-> << >>, transaction |-> ""]

Init ==
  /\ pc = "main"
  /\ input \in Inputs
  /\ svc = NoService
  /\ loc = NoLocals
  /\ calls = << >>
  /\ thrown = << >>
  /\ out = NoOutputs
  /\ failed = << >>
  /\ ledger = NoLedger

\* an error propagates to the catch block of main
Throw(msg) ==
  /\ thrown' = msg
  /\ pc' = "mainCatch"

Call(op) ==
  calls' = IF calls # << >> /\ calls[Len(calls)].op = op
           THEN [calls EXCEPT ![Len(calls)].n = @ + 1]
           ELSE Append(calls, [op |-> op, n |-> 1])

\* how many requests of kind op were issued
RECURSIVE CountIn(_, _)
CountIn(cs, op) ==
  IF cs = << >> THEN 0
  ELSE (IF cs[1].op = op THEN cs[1].n ELSE 0) + CountIn(Tail(cs), op)

Count(op) == CountIn(calls, op)

----------------------------------------------------------------------------
(* main(), up to and including the construction of the service.            *)

\* the checks of the constructor: the first that fails, << >> if none does
ConstructorError(secret, recipient, amount, network, timeout) ==
  IF amount.k = "nan" \/ amount.k = "zero" \/ amount.k = "neg" THEN MsgAmount
  ELSE IF timeout <= 0 THEN MsgTimeout
  ELSE IF network \notin NETWORK_URLS THEN MsgNetwork
  ELSE IF secret # "validSecret" THEN MsgSecretFormat
  ELSE IF ~DecodesToPublicKey(recipient) THEN MsgRecipientFormat(recipient)
  ELSE << >>

\* parseInt(getInput("timeout")) || 300 * 1000
TimeoutOrDefault(inp) ==
  LET t == ParseInt(inp) IN IF t.nan \/ t.v = 0 THEN DefaultTimeout ELSE t.v

NetworkOrDefault_Devnet(inp) == IF inp = "" THEN "devnet" ELSE inp

\* getInput("network") || "mainnet-beta"
NetworkOrDefault(inp) == IF inp = "" THEN DefaultNetwork ELSE inp

Main ==
  /\ pc = "main"
  /\ UNCHANGED <<ledger, input, loc, calls, out, failed>>
  /\ IF input.secret = "" THEN Throw(MsgSecretNotSet) /\ UNCHANGED svc
     ELSE IF input.recipient = ""
          THEN Throw(MsgInputRequired("recipient-wallet-address")) /\ UNCHANGED svc
     ELSE IF input.amount.kind = "absent"
          THEN Throw(MsgInputRequired("amount")) /\ UNCHANGED svc
     ELSE IF input.token = ""
          THEN Throw(MsgInputRequired("token")) /\ UNCHANGED svc
     ELSE LET amount  == ParseFloat(input.amount)
              network == NetworkOrDefault(input.network)
              timeout == TimeoutOrDefault(input.timeout)
              err     == ConstructorError(input.secret, input.recipient, amount,
                                          network, timeout)
          IN IF err # << >> THEN Throw(err) /\ UNCHANGED svc
             ELSE /\ svc' = [constructed |-> TRUE, amount |-> amount,
                             token |-> input.token, network |-> network,
                             timeout |-> timeout,
                             isTokenTransfer |-> ToUpperCase(input.token) # "SOL",
                             mint |-> NoMint,
                             senderPubKey |-> "SenderPubKey",
                             recipientPubKey |-> input.recipient]
                  /\ pc' = "initialize"
                  /\ UNCHANGED thrown

----------------------------------------------------------------------------
(* initialize(): the two wallet validations, then the mint lookup.         *)

Initialize_SkipRecipient ==
  /\ pc = "initialize"
  /\ UNCHANGED <<ledger, input, svc, loc, calls, out, failed>>
  /\ IF ~IsOnCurve(svc.senderPubKey) THEN Throw(MsgWalletFormat(svc.senderPubKey))
     ELSE /\ pc' = IF svc.isTokenTransfer THEN "validateTokenAddress"
                   ELSE "executePayment"
          /\ UNCHANGED thrown

Initialize ==
  /\ pc = "initialize"
  /\ UNCHANGED <<ledger, input, svc, loc, calls, out, failed>>
  /\ IF ~IsOnCurve(svc.senderPubKey) THEN Throw(MsgWalletFormat(svc.senderPubKey))
     ELSE IF ~IsOnCurve(svc.recipientPubKey)
          THEN Throw(MsgWalletFormat(svc.recipientPubKey))
     ELSE /\ pc' = IF svc.isTokenTransfer THEN "validateTokenAddress"
                   ELSE "executePayment"
          /\ UNCHANGED thrown

ValidateTokenAddress ==
  /\ pc = "validateTokenAddress"
  /\ UNCHANGED <<ledger, input, loc, out, failed>>
  /\ IF ~DecodesToPublicKey(svc.token)
     THEN Throw(MsgInvalidToken(svc.token)) /\ UNCHANGED <<svc, calls>>
     ELSE /\ Call("getMint")
          /\ \/ Throw(MsgInvalidToken(svc.token)) /\ UNCHANGED svc
             \/ \E d \in Decimals :
                  /\ svc' = [svc EXCEPT !.mint = [address |-> svc.token,
                                                  decimals |-> d, set |-> TRUE]]
                  /\ pc' = "executePayment"
                  /\ UNCHANGED thrown

----------------------------------------------------------------------------
(* executePayment(): the branch, and each path up to its first request.    *)

Instruction(kind, to, value) == [kind |-> kind, to |-> to, value |-> value]

\* Math.floor(this.amount * Math.pow(10, this.mint.decimals))
TransferAmount(amount, decimals) == FFloor(FMulInt(amount, 10 ^ decimals))

ExecutePayment_NoMintCheck ==
  /\ pc = "executePayment"
  /\ UNCHANGED <<ledger, input, svc, calls, out, failed>>
  /\ IF ~svc.isTokenTransfer
     THEN /\ loc' = [loc EXCEPT !.instructions =
                       <<Instruction("SystemTransfer", svc.recipientPubKey,
                                     FMulInt(svc.amount, LAMPORTS_PER_SOL))>>]
          /\ pc' = "createVersionedTransaction"
          /\ UNCHANGED thrown
     ELSE /\ loc' = [loc EXCEPT !.transferAmount =
                       TransferAmount(svc.amount, svc.mint.decimals)]
          /\ pc' = "checkSenderTokenAccount"
          /\ UNCHANGED thrown

ExecutePayment_RefetchMint ==
  /\ pc = "executePayment"
  /\ UNCHANGED <<ledger, input, out, failed>>
  /\ IF ~svc.isTokenTransfer
     THEN /\ loc' = [loc EXCEPT !.instructions =
                       <<Instruction("SystemTransfer", svc.recipientPubKey,
                                     FMulInt(svc.amount, LAMPORTS_PER_SOL))>>]
          /\ pc' = "createVersionedTransaction"
          /\ UNCHANGED <<thrown, svc, calls>>
     ELSE IF ~svc.mint.set THEN Throw(MsgMintNotInitialized) /\ UNCHANGED <<loc, svc, calls>>
          ELSE /\ Call("getMint")
               /\ \E d \in Decimals : svc' = [svc EXCEPT !.mint.decimals = d]
               /\ loc' = [loc EXCEPT !.transferAmount =
                            TransferAmount(svc.amount, svc'.mint.decimals)]
               /\ pc' = "checkSenderTokenAccount"
               /\ UNCHANGED thrown

ExecutePayment ==
  /\ pc = "executePayment"
  /\ UNCHANGED <<ledger, input, svc, calls, out, failed>>
  /\ IF ~svc.isTokenTransfer
     THEN \* executeSolTransfer: the one transfer instruction
          /\ loc' = [loc EXCEPT !.instructions =
                       <<Instruction("SystemTransfer", svc.recipientPubKey,
                                     FMulInt(svc.amount, LAMPORTS_PER_SOL))>>]
          /\ pc' = "createVersionedTransaction"
          /\ UNCHANGED thrown
     ELSE \* executeTokenTransfer
          IF ~svc.mint.set THEN Throw(MsgMintNotInitialized) /\ UNCHANGED loc
          ELSE /\ loc' = [loc EXCEPT !.transferAmount =
                            TransferAmount(svc.amount, svc.mint.decimals)]
               /\ pc' = "checkSenderTokenAccount"
               /\ UNCHANGED thrown

----------------------------------------------------------------------------
(* executeTokenTransfer(): the three existence checks and the assembly of  *)
(* the instruction list.  checkAccountExists turns a failed lookup into    *)
(* its own error.                                                          *)

SenderTokenAccount == "SenderAssociatedTokenAccount"

RecipientTokenAccount == "RecipientAssociatedTokenAccount"

\* the text of a boolean local, "undefined" before its assignment
BoolText(b) == IF b THEN "true" ELSE "false"

CheckSenderTokenAccount_CreatesAccount ==
  /\ pc = "checkSenderTokenAccount"
  /\ UNCHANGED <<ledger, input, svc, out, failed>>
  /\ Call("getAccountInfo")
  /\ \/ /\ Throw(MsgCheckExistence(SenderTokenAccount))
        /\ loc' = [loc EXCEPT !.checked = Append(@, SenderTokenAccount)]
     \/ \E senderAccountExists \in BOOLEAN :
          /\ loc' = [loc EXCEPT
                       !.checked = Append(@, SenderTokenAccount),
                       !.senderAccountExists = BoolText(senderAccountExists),
                       !.instructions =
                          IF senderAccountExists THEN @
                          ELSE Append(@, [kind |-> "CreateAssociatedTokenAccount",
                                          to |-> SenderTokenAccount, value |-> Zero])]
          /\ pc' = "checkRecipientAccount" /\ UNCHANGED thrown

CheckSenderTokenAccount_RecipientFirst ==
  /\ pc = "checkSenderTokenAccount"
  /\ UNCHANGED <<ledger, input, svc, out, failed>>
  /\ Call("getAccountInfo")
  /\ \/ /\ Throw(MsgCheckExistence(svc.recipientPubKey))
        /\ loc' = [loc EXCEPT !.checked = Append(@, svc.recipientPubKey)]
     \/ \E senderAccountExists \in BOOLEAN :
          /\ loc' = [loc EXCEPT !.checked = Append(@, svc.recipientPubKey),
                                !.senderAccountExists = BoolText(senderAccountExists)]
          /\ IF ~senderAccountExists THEN Throw(MsgNoSenderTokenAccount)
             ELSE pc' = "checkRecipientAccount" /\ UNCHANGED thrown

CheckSenderTokenAccount ==
  /\ pc = "checkSenderTokenAccount"
  /\ UNCHANGED <<ledger, input, svc, out, failed>>
  /\ Call("getAccountInfo")
  /\ \/ /\ Throw(MsgCheckExistence(SenderTokenAccount))
        /\ loc' = [loc EXCEPT !.checked = Append(@, SenderTokenAccount)]
     \/ \E senderAccountExists \in BOOLEAN :
          /\ loc' = [loc EXCEPT !.checked = Append(@, SenderTokenAccount),
                                !.senderAccountExists = BoolText(senderAccountExists)]
          /\ IF ~senderAccountExists THEN Throw(MsgNoSenderTokenAccount)
             ELSE pc' = "checkRecipientAccount" /\ UNCHANGED thrown

CheckRecipientAccount_FailedMeansMissing ==
  /\ pc = "checkRecipientAccount"
  /\ UNCHANGED <<ledger, input, svc, out, failed>>
  /\ Call("getAccountInfo")
  /\ \/ /\ loc' = [loc EXCEPT !.checked = Append(@, svc.recipientPubKey)]
        /\ pc' = "getMinimumBalanceForRentExemptAccount"
        /\ UNCHANGED thrown
     \/ \E recipientAccountExists \in BOOLEAN :
          /\ loc' = [loc EXCEPT
                       !.checked = Append(@, svc.recipientPubKey),
                       !.recipientAccountExists = BoolText(recipientAccountExists)]
          /\ pc' = IF recipientAccountExists THEN "checkRecipientTokenAccount"
                   ELSE "getMinimumBalanceForRentExemptAccount"
          /\ UNCHANGED thrown

CheckRecipientAccount ==
  /\ pc = "checkRecipientAccount"
  /\ UNCHANGED <<ledger, input, svc, out, failed>>
  /\ Call("getAccountInfo")
  /\ \/ /\ Throw(MsgCheckExistence(svc.recipientPubKey))
        /\ loc' = [loc EXCEPT !.checked = Append(@, svc.recipientPubKey)]
     \/ \E recipientAccountExists \in BOOLEAN :
          /\ loc' = [loc EXCEPT
                       !.checked = Append(@, svc.recipientPubKey),
                       !.recipientAccountExists = BoolText(recipientAccountExists)]
          /\ pc' = IF recipientAccountExists THEN "checkRecipientTokenAccount"
                   ELSE "getMinimumBalanceForRentExemptAccount"
          /\ UNCHANGED thrown

GetMinimumBalanceForRentExemptAccount ==
  /\ pc = "getMinimumBalanceForRentExemptAccount"
  /\ UNCHANGED <<ledger, input, svc, out, failed>>
  /\ Call("getMinimumBalanceForRentExemption")
  /\ \/ Throw(MsgRpc("getMinimumBalanceForRentExemption")) /\ UNCHANGED loc
     \/ \E minRent \in MinRents :
          /\ loc' = [loc EXCEPT !.instructions =
                       Append(@, Instruction("SystemTransfer", svc.recipientPubKey,
                                             FromInt(minRent)))]
          /\ pc' = "checkRecipientTokenAccount"
          /\ UNCHANGED thrown

CheckRecipientTokenAccount_TransferFirst ==
  /\ pc = "checkRecipientTokenAccount"
  /\ UNCHANGED <<ledger, input, svc, out, failed>>
  /\ Call("getAccountInfo")
  /\ \/ /\ Throw(MsgCheckExistence(RecipientTokenAccount))
        /\ loc' = [loc EXCEPT !.checked = Append(@, RecipientTokenAccount)]
     \/ \E checkRecipientTokenAccountExists \in BOOLEAN :
          LET sent ==
                Append(loc.instructions,
                       Instruction("TokenTransfer", RecipientTokenAccount,
                                   FromInt(loc.transferAmount)))
          IN /\ loc' = [loc EXCEPT
                          !.checked = Append(@, RecipientTokenAccount),
                          !.checkRecipientTokenAccountExists =
                             BoolText(checkRecipientTokenAccountExists),
                          !.instructions =
                             IF checkRecipientTokenAccountExists THEN sent
                             ELSE Append(sent,
                                         Instruction("CreateAssociatedTokenAccount",
                                                     RecipientTokenAccount, Zero))]
             /\ pc' = "createVersionedTransaction"
             /\ UNCHANGED thrown

CheckRecipientTokenAccount ==
  /\ pc = "checkRecipientTokenAccount"
  /\ UNCHANGED <<ledger, input, svc, out, failed>>
  /\ Call("getAccountInfo")
  /\ \/ /\ Throw(MsgCheckExistence(RecipientTokenAccount))
        /\ loc' = [loc EXCEPT !.checked = Append(@, RecipientTokenAccount)]
     \/ \E checkRecipientTokenAccountExists \in BOOLEAN :
          LET created ==
                IF checkRecipientTokenAccountExists THEN loc.instructions
                ELSE Append(loc.instructions,
                            Instruction("CreateAssociatedTokenAccount",
                                        RecipientTokenAccount, Zero))
          IN /\ loc' = [loc EXCEPT
                          !.checked = Append(@, RecipientTokenAccount),
                          !.checkRecipientTokenAccountExists =
                             BoolText(checkRecipientTokenAccountExists),
                          !.instructions =
                             Append(created,
                                    Instruction("TokenTransfer", RecipientTokenAccount,
                                                FromInt(loc.transferAmount)))]
             /\ pc' = "createVersionedTransaction"
             /\ UNCHANGED thrown

----------------------------------------------------------------------------
(* createVersionedTransaction(): latest blockhash, compile, sign.          *)

Blockhashes == {"blockhash1"}

CreateVersionedTransaction_Unsigned ==
  /\ pc = "createVersionedTransaction"
  /\ UNCHANGED <<ledger, input, svc, out, failed>>
  /\ Call("getLatestBlockhash")
  /\ \/ Throw(MsgRpc("getLatestBlockhash")) /\ UNCHANGED loc
     \/ \E h \in Blockhashes :
          /\ loc' = [loc EXCEPT !.transaction =
                       [signed |-> FALSE, blockhash |-> h,
                        instructions |-> loc.instructions]]
          /\ pc' = "getFeeForMessage"
          /\ UNCHANGED thrown

CreateVersionedTransaction ==
  /\ pc = "createVersionedTransaction"
  /\ UNCHANGED <<ledger, input, svc, out, failed>>
  /\ Call("getLatestBlockhash")
  /\ \/ Throw(MsgRpc("getLatestBlockhash")) /\ UNCHANGED loc
     \/ \E h \in Blockhashes :
          /\ loc' = [loc EXCEPT !.transaction =
                       [signed |-> TRUE, blockhash |-> h,
                        instructions |-> loc.instructions]]
          /\ pc' = "getFeeForMessage"
          /\ UNCHANGED thrown

----------------------------------------------------------------------------
(* validateSenderSolBalance(): fee estimate, balance, comparison in SOL.   *)

GetFeeForMessage_ZeroFeeAccepted ==
  /\ pc = "getFeeForMessage"
  /\ UNCHANGED <<ledger, input, svc, out, failed>>
  /\ Call("getFeeForMessage")
  /\ \/ /\ Throw(MsgRpc("getFeeForMessage"))
        /\ loc' = [loc EXCEPT !.feeFor = loc.transaction]
     \/ \E value \in FeeAnswers :
          /\ loc' = [loc EXCEPT !.txFee = value, !.feeFor = loc.transaction]
          /\ IF value = NullFee THEN Throw(MsgFee)
             ELSE pc' = "getBalance" /\ UNCHANGED thrown

GetFeeForMessage ==
  /\ pc = "getFeeForMessage"
  /\ UNCHANGED <<ledger, input, svc, out, failed>>
  /\ Call("getFeeForMessage")
  /\ \/ /\ Throw(MsgRpc("getFeeForMessage"))
        /\ loc' = [loc EXCEPT !.feeFor = loc.transaction]
     \/ \E value \in FeeAnswers :
          /\ loc' = [loc EXCEPT !.txFee = value, !.feeFor = loc.transaction]
          /\ IF value = NullFee \/ value = 0 THEN Throw(MsgFee)
             ELSE pc' = "getBalance" /\ UNCHANGED thrown

\* the step after the native-balance guard has passed
AfterSolBalance_NoTokenGuard(isTokenTransfer) == "sendTransaction"

AfterSolBalance(isTokenTransfer) ==
  IF isTokenTransfer THEN "getTokenAccountBalance" ELSE "sendTransaction"

\* txFeeSol + (this.isTokenTransfer ? 0 : this.amount)
TotalCost(txFeeSol, amount, isTokenTransfer) ==
  FAdd(txFeeSol, IF isTokenTransfer THEN Zero ELSE amount)

GetBalance_TokenUnguarded ==
  /\ pc = "getBalance"
  /\ UNCHANGED <<ledger, input, svc, out, failed>>
  /\ Call("getBalance")
  /\ \/ Throw(MsgRpc("getBalance")) /\ UNCHANGED loc
     \/ \E lamports \in BalanceAnswers :
          LET txFeeSol  == DivInts(loc.txFee, LAMPORTS_PER_SOL)
              sol       == DivInts(lamports, LAMPORTS_PER_SOL)
              totalCost == TotalCost(txFeeSol, svc.amount, svc.isTokenTransfer)
          IN /\ loc' = [loc EXCEPT !.lamports = lamports]
             /\ IF ~svc.isTokenTransfer /\ FLess(sol, totalCost)
                THEN Throw(MsgInsufficientSol(svc.network, sol, totalCost, txFeeSol))
                ELSE /\ pc' = AfterSolBalance(svc.isTokenTransfer)
                     /\ UNCHANGED thrown

GetBalance ==
  /\ pc = "getBalance"
  /\ UNCHANGED <<ledger, input, svc, out, failed>>
  /\ Call("getBalance")
  /\ \/ Throw(MsgRpc("getBalance")) /\ UNCHANGED loc
     \/ \E lamports \in BalanceAnswers :
          LET txFeeSol  == DivInts(loc.txFee, LAMPORTS_PER_SOL)
              sol       == DivInts(lamports, LAMPORTS_PER_SOL)
              totalCost == TotalCost(txFeeSol, svc.amount, svc.isTokenTransfer)
          IN /\ loc' = [loc EXCEPT !.lamports = lamports]
             /\ IF FLess(sol, totalCost)
                THEN Throw(MsgInsufficientSol(svc.network, sol, totalCost, txFeeSol))
                ELSE /\ pc' = AfterSolBalance(svc.isTokenTransfer)
                     /\ UNCHANGED thrown

----------------------------------------------------------------------------
(* validateSenderTokenBalance(): the balance in display units (uiAmount)   *)
(* against the requested amount.                                           *)

\* the uiAmount the node reports for raw units of a mint
UiAmount(raw, decimals) == DivInts(raw, 10 ^ decimals)

GetTokenAccountBalance ==
  /\ pc = "getTokenAccountBalance"
  /\ UNCHANGED <<ledger, input, svc, out, failed>>
  /\ Call("getTokenAccountBalance")
  /\ \/ Throw(MsgRpc("getTokenAccountBalance")) /\ UNCHANGED loc
     \/ \E raw \in TokenRawAnswers :
          LET senderTokenBalance == UiAmount(raw, svc.mint.decimals)
          IN /\ loc' = [loc EXCEPT !.tokenRaw = raw]
             /\ IF senderTokenBalance.k = "zero" \/ FLess(senderTokenBalance, svc.amount)
                THEN Throw(MsgInsufficientToken(svc.network,
                                                NumberToString(senderTokenBalance),
                                                svc.mint.address, svc.amount))
                ELSE pc' = "sendTransaction" /\ UNCHANGED thrown

----------------------------------------------------------------------------
(* sendTransaction(): one submission; a failure is logged and replaced by  *)
(* a generic error, after the simulation logs were fetched if the failure  *)
(* is a SendTransactionError.                                              *)

MaxAttempts_Fixed(timeout) == 3

MaxAttempts_Floor(timeout) == timeout \div 1000

\* Math.ceil(this.timeout / 1000)
MaxAttempts(timeout) == FCeil(DivInts(timeout, 1000))

SendTransaction ==
  /\ pc = "sendTransaction"
  /\ UNCHANGED <<input, svc, out, failed>>
  /\ Call("sendTransaction")
  /\ \/ \* a SendTransactionError (the simulation of the transaction
        \* failed): its logs are asked for
        /\ pc' = "getLogs"
        /\ loc' = [loc EXCEPT !.txFee = NullFee, !.lamports = -1, !.tokenRaw = -1]
        /\ ledger' = [state |-> "rejected", at |-> "simulation",
                      tx |-> loc.transaction]
        /\ UNCHANGED thrown
     \/ \* any other failure
        /\ Throw(MsgSendFailed)
        /\ loc' = [loc EXCEPT !.txFee = NullFee, !.lamports = -1, !.tokenRaw = -1]
        /\ UNCHANGED ledger
     \/ \E signature \in Signatures :
          \* the network has taken the transaction; confirmTransaction
          \* starts: counters of the polling loop and the first test of
          \* the loop condition
          LET maxAttempts == MaxAttempts(svc.timeout)
          IN /\ ledger' = [state |-> "pending", at |-> "", tx |-> loc.transaction]
             /\ loc' = [loc EXCEPT !.txFee = NullFee, !.lamports = -1,
                                   !.tokenRaw = -1,
                                   !.signature = signature,
                                   !.attempts = 0,
                                   !.maxAttempts = maxAttempts,
                                   !.commitment = "undefined"]
             /\ IF 0 < maxAttempts
                THEN pc' = "getSignatureStatus" /\ UNCHANGED thrown
                ELSE Throw(MsgNotConfirmed(svc.timeout, signature, "undefined"))

GetLogs_WithLogs ==
  /\ pc = "getLogs"
  /\ UNCHANGED <<ledger, input, svc, calls, out, failed>>
  /\ \E txLogs \in SimulationLogs :
       /\ loc' = [loc EXCEPT !.txLogs = txLogs]
       /\ Throw(<<"Transaction failed to send: ", txLogs>>)

GetLogs_Swallow ==
  /\ pc = "getLogs"
  /\ UNCHANGED <<ledger, input, svc, calls, out, failed, thrown>>
  /\ \E txLogs \in SimulationLogs :
       /\ loc' = [loc EXCEPT !.txLogs = txLogs]
       /\ pc' = "mainReturn"

GetLogs_Resubmit ==
  /\ pc = "getLogs"
  /\ UNCHANGED <<ledger, input, svc, loc, calls, out, failed>>
  /\ thrown' = MsgSendFailed
  /\ pc' = "sendTransaction"

GetLogs ==
  /\ pc = "getLogs"
  /\ UNCHANGED <<ledger, input, svc, out, failed>>
  /\ \/ \* the error carries its logs
        \E txLogs \in SimulationLogs :
          /\ loc' = [loc EXCEPT !.txLogs = txLogs]
          /\ Throw(MsgSendFailed) /\ UNCHANGED calls
     \/ \* the logs are fetched from the node
        \E txLogs \in SimulationLogs \cup {NoLogs} :
          /\ loc' = [loc EXCEPT !.txLogs = txLogs]
          /\ Call("getTransaction") /\ Throw(MsgSendFailed)
     \/ \* fetching the logs fails: that error escapes the catch
        Call("getTransaction") /\ Throw(MsgRpc("getTransaction")) /\ UNCHANGED loc

----------------------------------------------------------------------------
(* confirmTransaction(): the polling loop.                                 *)

IsConfirmed_AnyStatus(commitment) == commitment # "undefined"

\* the status the node reports agrees with what the ledger did with the
\* transaction: a rejected one never shows as executed without error, an
\* applied one never shows an error
LedgerAllows(status) ==
  /\ ledger.state = "rejected" => ~(status.present /\ status.err = NoErr)
  /\ ledger.state = "applied" => status.err = NoErr

\* the test that ends the loop and that guards the final error
IsConfirmed(commitment) == commitment = "confirmed"

GetSignatureStatus_CommitmentFirst ==
  /\ pc = "getSignatureStatus"
  /\ loc.attempts < loc.maxAttempts
  /\ UNCHANGED <<ledger, input, svc, out, failed>>
  /\ Call("getSignatureStatus")
  /\ \/ \* the request itself raises
        /\ Throw(MsgRpc("getSignatureStatus"))
        /\ loc' = [loc EXCEPT !.queried = loc.signature, !.statusError = TRUE]
     \/ \E status \in {a \in StatusAnswers : LedgerAllows(a)} :
          IF IsConfirmed(status.confirmationStatus)
          THEN /\ loc' = [loc EXCEPT !.status = status, !.queried = loc.signature,
                                     !.commitment = status.confirmationStatus]
               /\ pc' = "mainReturn"
               /\ UNCHANGED thrown
          ELSE IF status.present /\ status.err # NoErr
          THEN /\ Throw(MsgTransactionFailed(status.err))
               /\ loc' = [loc EXCEPT !.status = status, !.queried = loc.signature]
          ELSE /\ loc' = [loc EXCEPT !.status = status, !.queried = loc.signature,
                                     !.commitment = status.confirmationStatus,
                                     !.attempts = @ + 1]
               /\ pc' = "sleep"
               /\ UNCHANGED thrown

GetSignatureStatus_RetryOnError ==
  /\ pc = "getSignatureStatus"
  /\ loc.attempts < loc.maxAttempts
  /\ UNCHANGED <<ledger, input, svc, out, failed>>
  /\ Call("getSignatureStatus")
  /\ \/ \* the request itself raises
        /\ loc' = [loc EXCEPT !.queried = loc.signature, !.statusError = TRUE,
                              !.attempts = @ + 1]
        /\ pc' = "sleep"
        /\ UNCHANGED thrown
     \/ \E status \in {a \in StatusAnswers : LedgerAllows(a)} :
          IF status.present /\ status.err # NoErr
          THEN /\ Throw(MsgTransactionFailed(status.err))
               /\ loc' = [loc EXCEPT !.status = status, !.queried = loc.signature]
          ELSE IF IsConfirmed(status.confirmationStatus)
          THEN \* break; confirmTransaction and the transfer path return
               /\ loc' = [loc EXCEPT !.status = status, !.queried = loc.signature,
                                     !.commitment = status.confirmationStatus]
               /\ pc' = "mainReturn"
               /\ UNCHANGED thrown
          ELSE /\ loc' = [loc EXCEPT !.status = status, !.queried = loc.signature,
                                     !.commitment = status.confirmationStatus,
                                     !.attempts = @ + 1]
               /\ pc' = "sleep"
               /\ UNCHANGED thrown

GetSignatureStatus_NoSleep ==
  /\ pc = "getSignatureStatus"
  /\ loc.attempts < loc.maxAttempts
  /\ UNCHANGED <<ledger, input, svc, out, failed>>
  /\ Call("getSignatureStatus")
  /\ \/ \* the request itself raises
        /\ Throw(MsgRpc("getSignatureStatus"))
        /\ loc' = [loc EXCEPT !.queried = loc.signature, !.statusError = TRUE]
     \/ \E status \in {a \in StatusAnswers : LedgerAllows(a)} :
          IF status.present /\ status.err # NoErr
          THEN /\ Throw(MsgTransactionFailed(status.err))
               /\ loc' = [loc EXCEPT !.status = status, !.queried = loc.signature]
          ELSE IF IsConfirmed(status.confirmationStatus)
          THEN \* break; confirmTransaction and the transfer path return
               /\ loc' = [loc EXCEPT !.status = status, !.queried = loc.signature,
                                     !.commitment = status.confirmationStatus]
               /\ pc' = "mainReturn"
               /\ UNCHANGED thrown
          ELSE /\ loc' = [loc EXCEPT !.status = status, !.queried = loc.signature,
                                     !.commitment = status.confirmationStatus,
                                     !.attempts = @ + 1]
               /\ pc' = IF loc.attempts + 1 < loc.maxAttempts
                        THEN "getSignatureStatus" ELSE "sleep"
               /\ UNCHANGED thrown

GetSignatureStatus ==
  /\ pc = "getSignatureStatus"
  /\ loc.attempts < loc.maxAttempts
  /\ UNCHANGED <<ledger, input, svc, out, failed>>
  /\ Call("getSignatureStatus")
  /\ \/ \* the request itself raises
        /\ Throw(MsgRpc("getSignatureStatus"))
        /\ loc' = [loc EXCEPT !.queried = loc.signature, !.statusError = TRUE]
     \/ \E status \in {a \in StatusAnswers : LedgerAllows(a)} :
          IF status.present /\ status.err # NoErr
          THEN /\ Throw(MsgTransactionFailed(status.err))
               /\ loc' = [loc EXCEPT !.status = status, !.queried = loc.signature]
          ELSE IF IsConfirmed(status.confirmationStatus)
          THEN \* break; confirmTransaction and the transfer path return
               /\ loc' = [loc EXCEPT !.status = status, !.queried = loc.signature,
                                     !.commitment = status.confirmationStatus]
               /\ pc' = "mainReturn"
               /\ UNCHANGED thrown
          ELSE /\ loc' = [loc EXCEPT !.status = status, !.queried = loc.signature,
                                     !.commitment = status.confirmationStatus,
                                     !.attempts = @ + 1]
               /\ pc' = "sleep"
               /\ UNCHANGED thrown

Sleep_Resubmit ==
  /\ pc = "sleep"
  /\ UNCHANGED <<ledger, input, svc, loc, calls, out, failed>>
  /\ IF loc.attempts < loc.maxAttempts
     THEN pc' = "getSignatureStatus" /\ UNCHANGED thrown
     ELSE IF ~IsConfirmed(loc.commitment)
          THEN pc' = "sendTransaction" /\ UNCHANGED thrown
          ELSE pc' = "mainReturn" /\ UNCHANGED thrown

Sleep_Reassemble ==
  /\ pc = "sleep"
  /\ UNCHANGED <<ledger, input, svc, loc, calls, out, failed>>
  /\ IF loc.attempts < loc.maxAttempts
     THEN pc' = "getSignatureStatus" /\ UNCHANGED thrown
     ELSE IF ~IsConfirmed(loc.commitment)
          THEN pc' = "createVersionedTransaction" /\ UNCHANGED thrown
          ELSE pc' = "mainReturn" /\ UNCHANGED thrown

\* setTimeout(resolve, 1000)
SleepMs == 1000

\* the 1000 ms timer fires; the loop condition is tested again
Sleep ==
  /\ pc = "sleep"
  /\ UNCHANGED <<ledger, input, svc, calls, out, failed>>
  /\ loc' = [loc EXCEPT !.slept = @ + SleepMs]
  /\ IF loc.attempts < loc.maxAttempts
     THEN pc' = "getSignatureStatus" /\ UNCHANGED thrown
     ELSE IF ~IsConfirmed(loc.commitment)
          THEN Throw(MsgNotConfirmed(svc.timeout, loc.signature, loc.commitment))
          ELSE pc' = "mainReturn" /\ UNCHANGED thrown

----------------------------------------------------------------------------
(* main(): the outputs.                                                    *)

AllOutputs == {"success", "error", "transaction"}

\* the three setOutput calls of the try block
ReturnOutputs(signature) ==
  [written |-> AllOutputs, success |-> "true", error |-> << >>,
   transaction |-> signature]

CatchOutputs_NoTransaction(message) ==
  [written |-> {"success", "error"}, success |-> "false", error |-> message,
   transaction |-> ""]

\* the three setOutput calls of the catch block
CatchOutputs(message) ==
  [written |-> AllOutputs, success |-> "false", error |-> message,
   transaction |-> ""]

MainReturn ==
  /\ pc = "mainReturn"
  /\ out' = ReturnOutputs(loc.signature)
  /\ pc' = "done"
  /\ UNCHANGED <<ledger, input, svc, loc, calls, thrown, failed>>

MainCatch_Restart ==
  /\ pc = "mainCatch"
  /\ pc' = "main"
  /\ svc' = NoService /\ loc' = NoLocals /\ calls' = << >>
  /\ thrown' = << >> /\ ledger' = NoLedger
  /\ UNCHANGED <<input, out, failed>>

MainCatch_Recheck ==
  /\ pc = "mainCatch"
  /\ out' = CatchOutputs(thrown)
  /\ failed' = thrown
  /\ pc' = "done"
  /\ IF loc.signature # "" THEN Call("getSignatureStatus") ELSE UNCHANGED calls
  /\ UNCHANGED <<ledger, input, svc, loc, thrown>>

MainCatch_NoSetFailed ==
  /\ pc = "mainCatch"
  /\ out' = CatchOutputs(thrown)
  /\ pc' = "done"
  /\ UNCHANGED <<ledger, input, svc, loc, calls, thrown, failed>>

MainCatch ==
  /\ pc = "mainCatch"
  /\ out' = CatchOutputs(thrown)
  /\ failed' = thrown
  /\ pc' = "done"
  /\ UNCHANGED <<ledger, input, svc, loc, calls, thrown>>

----------------------------------------------------------------------------

Next ==
  \/ Main
  \/ Initialize
  \/ ValidateTokenAddress
  \/ ExecutePayment
  \/ CheckSenderTokenAccount
  \/ CheckRecipientAccount
  \/ GetMinimumBalanceForRentExemptAccount
  \/ CheckRecipientTokenAccount
  \/ CreateVersionedTransaction
  \/ GetFeeForMessage
  \/ GetBalance
  \/ GetTokenAccountBalance
  \/ SendTransaction
  \/ GetLogs
  \/ GetSignatureStatus
  \/ Sleep
  \/ MainReturn
  \/ MainCatch

Spec == Init /\ [][Next]_vars

\* the ledger applies a submitted transaction, at any moment after the
\* submission, also after main() has ended
LedgerApplies ==
  /\ ledger.state = "pending"
  /\ loc.status.err = NoErr
  /\ ledger' = [ledger EXCEPT !.state = "applied", !.at = pc]
  /\ UNCHANGED <<pc, input, svc, loc, calls, thrown, out, failed>>

\* the ledger rejects a submitted transaction at execution, for instance
\* because a concurrent spender has lowered the sender's balance since the
\* guards; not once a status has shown it executed without error
LedgerRejects ==
  /\ ledger.state = "pending"
  /\ ~(loc.status.present /\ loc.status.err = NoErr)
  /\ ledger' = [ledger EXCEPT !.state = "rejected", !.at = pc]
  /\ UNCHANGED <<pc, input, svc, loc, calls, thrown, out, failed>>

NextLedger == Next \/ LedgerApplies \/ LedgerRejects

\* the same program started on the well-formed token payouts
InitTokenPayout ==
  /\ pc = "main"
  /\ input \in TokenPayoutInputs
  /\ svc = NoService
  /\ loc = NoLocals
  /\ calls = << >>
  /\ thrown = << >>
  /\ out = NoOutputs
  /\ failed = << >>
  /\ ledger = NoLedger

SpecTokenPayout == InitTokenPayout /\ [][Next]_vars

\* the token payouts together with the ledger's own step
SpecLedger == InitTokenPayout /\ [][NextLedger]_vars

\* a caller of the service that does not call initialize() before
\* executePayment(): both are public methods
SkipInitialize ==
  /\ pc = "initialize"
  /\ pc' = "executePayment"
  /\ UNCHANGED <<ledger, input, svc, loc, calls, thrown, out, failed>>

NextDirect == Next \/ SkipInitialize

\* the token payouts with callers that may leave out initialize()
SpecDirect == InitTokenPayout /\ [][NextDirect]_vars

\* requests with explicit timeouts, native and token, valid or not
LiveInputs ==
  [secret : Secrets, recipient : Recipients,
   amount : {[kind |-> "dec", nano |-> MaxAmountNano]},
   token : {"SOL", "MintA"}, network : {"devnet"},
   timeout : {[kind |-> "int", ms |-> t] : t \in {1, 1001, 1000 * MaxSeconds}}]

InitLive ==
  /\ pc = "main"
  /\ input \in LiveInputs
  /\ svc = NoService
  /\ loc = NoLocals
  /\ calls = << >>
  /\ thrown = << >>
  /\ out = NoOutputs
  /\ failed = << >>
  /\ ledger = NoLedger

\* the positions of main(), in the order of the source
Positions ==
  {"main", "initialize", "validateTokenAddress", "executePayment",
   "checkSenderTokenAccount", "checkRecipientAccount",
   "getMinimumBalanceForRentExemptAccount", "checkRecipientTokenAccount",
   "createVersionedTransaction", "getFeeForMessage", "getBalance",
   "getTokenAccountBalance", "sendTransaction", "getLogs",
   "getSignatureStatus", "sleep", "mainReturn", "mainCatch", "done"}

\* main() leaves the position it stands at: the statement or the awaited
\* request there completes, or the timer there fires
Progress ==
  /\ pc # "done"
  /\ pc' \in Positions \ {pc}

\* every awaited request returns or raises and every timer fires, so main()
\* does not stay for ever at a position before its end
SpecLive == InitLive /\ [][Next]_vars /\ WF_pc(Progress)

----------------------------------------------------------------------------
(* Properties.                                                             *)

IsTimeoutMsg(m) == m # << >> /\ m[1] = "Transaction not confirmed within "

IsOnChainFailureMsg(m) == m # << >> /\ m[1] = "Transaction failed: "

IsInsufficientSolMsg(m) == m # << >> /\ m[1] = "Insufficient funds in sender wallet on "

Failing == pc \in {"mainCatch", "done"} /\ thrown # << >>

\* the attempt budget as the mathematical ceiling of timeout / 1000
Budget == (svc.timeout + 999) \div 1000

\* C1: success is reported only after the single submission was followed by
\* a status query for the returned signature that reported 'confirmed' and
\* no on-chain error; the transaction output is that signature; nothing
\* that failed is reported as success.
C1_SuccessOnlyConfirmed ==
  out.success = "true" =>
    /\ Count("sendTransaction") = 1
    /\ loc.signature \in Signatures
    /\ loc.queried = loc.signature
    /\ loc.status.present
    /\ loc.status.err = NoErr
    /\ loc.status.confirmationStatus = "confirmed"
    /\ out.transaction = loc.signature
    /\ thrown = << >>
    /\ failed = << >>

C1_Witness == out.success = "true" /\ Count("getSignatureStatus") >= 2

\* C2: when main has terminated the three outputs are written and agree:
\* success "true" iff error empty iff transaction non-empty; on failure
\* the error is the non-empty message of the failure and transaction is
\* empty.
C2_OutputsConsistent ==
  pc = "done" =>
    /\ out.written = AllOutputs
    /\ out.success \in {"true", "false"}
    /\ (out.success = "true") <=> (out.error = << >>)
    /\ (out.error = << >>) <=> (out.transaction # "")
    /\ out.success = "false" =>
         out.error = thrown /\ thrown # << >> /\ out.transaction = ""

C2_Witness ==
  pc = "done" /\ out.success = "false" /\ Count("sendTransaction") = 1

BalanceOps == {"getFeeForMessage", "getBalance", "getTokenAccountBalance"}

InitializeDone ==
  /\ svc.constructed
  /\ IsOnCurve(svc.senderPubKey) /\ IsOnCurve(svc.recipientPubKey)
  /\ svc.isTokenTransfer => svc.mint.set /\ Count("getMint") = 1

BalanceChecksDone ==
  /\ Count("getFeeForMessage") = 1 /\ loc.txFee \in Fees
  /\ Count("getBalance") = 1 /\ loc.lamports >= 0
  /\ Count("getTokenAccountBalance") = IF svc.isTokenTransfer THEN 1 ELSE 0
  /\ thrown = << >>

\* C3: the stages come in order: every request of a balance check is
\* issued after initialize has completed, sendTransaction is issued only
\* after all balance checks of the path have returned without failure, and
\* getSignatureStatus only after sendTransaction returned a signature.
C3_StageOrder ==
  [][calls' # calls =>
       LET op == calls'[Len(calls')].op
       IN /\ op = "getMint" => calls = << >>
          /\ op \in BalanceOps =>
               /\ InitializeDone
               /\ Count("sendTransaction") = 0
               /\ Count("getSignatureStatus") = 0
          /\ op = "sendTransaction" =>
               /\ InitializeDone
               /\ BalanceChecksDone
               /\ Count("getSignatureStatus") = 0
          /\ op = "getSignatureStatus" =>
               /\ Count("sendTransaction") = 1
               /\ loc.signature \in Signatures
               /\ calls[Len(calls)].op \in {"sendTransaction", "getSignatureStatus"}]_vars

C3_Witness ==
  svc.isTokenTransfer /\ Count("getSignatureStatus") >= 1 /\ pc = "done"

\* C4: the transaction is submitted at most once; a failed submission ends
\* the invocation with no status query, and repeated status queries never
\* come with a second submission.
C4_SingleSubmission ==
  /\ Count("sendTransaction") <= 1
  /\ (Failing /\ Count("sendTransaction") = 1 /\ loc.signature = "") =>
        Count("getSignatureStatus") = 0

C4_Witness ==
  Count("sendTransaction") = 1 /\ Count("getSignatureStatus") >= 2 /\ IsTimeoutMsg(thrown)

\* C5: for every timeout > 0 the loop issues at most ceil(timeout / 1000)
\* status queries; when every query returned a non-terminal status it
\* issues exactly that many and then fails with the not-confirmed error.
C5_ExactBudget ==
  /\ Count("getSignatureStatus") <= Budget
  /\ IsTimeoutMsg(thrown) =>
        Count("getSignatureStatus") = Budget /\ loc.attempts = Budget
  /\ (loc.signature # "" /\ loc.attempts = Budget /\ pc # "sleep") =>
        IsTimeoutMsg(thrown)

C5_Witness ==
  IsTimeoutMsg(thrown) /\ svc.timeout = 1001 /\ Count("getSignatureStatus") = 2

\* C6: a status with a non-null on-chain error makes the invocation fail
\* with 'Transaction failed: ' followed by the JSON text of that payload;
\* it is never a timeout and never a success.
C6_OnChainErrorVerbatim ==
  (loc.status.present /\ loc.status.err # NoErr) =>
    /\ Failing
    /\ thrown = <<"Transaction failed: ", JSONstringify(loc.status.err)>>
    /\ ~IsTimeoutMsg(thrown)
    /\ out.success # "true"
    /\ pc = "done" => out.success = "false" /\ out.error = thrown

C6_Witness ==
  /\ pc = "done" /\ loc.status.err = "InstructionError" /\ loc.attempts >= 1
  /\ out.error = <<"Transaction failed: ", "{\"InstructionError\":[0,{\"Custom\":1}]}">>

\* C7: a status within the budget with no on-chain error and confirmation
\* status 'confirmed' or 'finalized' ends the polling in success with that
\* signature, never in a timeout.
C7_CommitmentReached ==
  (/\ loc.status.present
   /\ loc.status.err = NoErr
   /\ loc.status.confirmationStatus \in {"confirmed", "finalized"}
   /\ loc.commitment = loc.status.confirmationStatus) =>
    /\ pc \in {"mainReturn", "done"}
    /\ thrown = << >>
    /\ pc = "done" => out.success = "true" /\ out.transaction = loc.signature

\* C8: when the budget is exhausted without a terminal status the failure
\* is the timeout message, not the on-chain failure message; the message
\* carries the signature of the submitted transaction and the transaction
\* output stays empty.
C8_TimeoutCarriesSignature ==
  (loc.signature # "" /\ loc.attempts = loc.maxAttempts /\ Failing) =>
    /\ IsTimeoutMsg(thrown)
    /\ ~IsOnChainFailureMsg(thrown)
    /\ \E i \in DOMAIN thrown : thrown[i] = loc.signature
    /\ pc = "done" =>
         out.success = "false" /\ out.error = thrown /\ out.transaction = ""

C8_Witness ==
  /\ pc = "done" /\ loc.attempts = loc.maxAttempts /\ loc.attempts >= 2
  /\ loc.signature = "sigB" /\ out.transaction = ""

\* C9: on the native path, with amount a, fee estimate f and balance b in
\* lamports, the guard passes to the submission iff b >= f + a, and
\* otherwise fails with the insufficient-funds error.
C9_NativeGuard ==
  (svc.constructed /\ ~svc.isTokenTransfer /\ loc.lamports >= 0) =>
    IF loc.lamports >= loc.txFee + input.amount.nano
    THEN pc = "sendTransaction"
    ELSE Failing /\ IsInsufficientSolMsg(thrown) /\ Count("sendTransaction") = 0

\* the accounts the assembled instructions create for the recipient
AccountsToCreate ==
  Cardinality({i \in DOMAIN loc.instructions :
                 loc.instructions[i].kind \in {"SystemTransfer",
                                               "CreateAssociatedTokenAccount"}})

\* C10: on the token path the native guard requires b >= f + provisioning
\* cost * accounts to create; a sender short of that is rejected with the
\* insufficient-funds error before submission.
C10_TokenNativeGuard ==
  (/\ svc.isTokenTransfer
   /\ loc.lamports >= 0
   /\ loc.lamports < loc.txFee + TOKEN_ACCOUNT_CREATION_COST * AccountsToCreate) =>
    Failing /\ IsInsufficientSolMsg(thrown) /\ Count("sendTransaction") = 0

IsInsufficientTokenMsg(m) ==
  m # << >> /\ m[1] = "Insufficient funds in sender token account on "

\* the token-transfer instruction of the assembled list, if there is one
TokenTransferValues ==
  {loc.instructions[i].value :
     i \in {j \in DOMAIN loc.instructions : loc.instructions[j].kind = "TokenTransfer"}}

\* C11: on the token path the token-balance guard passes iff the sender's
\* balance in raw units is at least the raw amount the transfer instruction
\* moves; otherwise the invocation fails with the insufficient-token error
\* naming the token contract, the balance and the required amount, and
\* nothing is submitted.
C11_TokenGuardRaw ==
  (svc.isTokenTransfer /\ loc.tokenRaw >= 0) =>
    IF loc.tokenRaw >= loc.transferAmount
    THEN pc = "sendTransaction" /\ thrown = << >>
    ELSE /\ Failing
         /\ IsInsufficientTokenMsg(thrown)
         /\ thrown[6] = svc.mint.address
         /\ thrown[4] = NumberToString(UiAmount(loc.tokenRaw, svc.mint.decimals))
         /\ thrown[8] = NumberToString(svc.amount)
         /\ Count("sendTransaction") = 0

ExpectedInstructions ==
  (IF loc.recipientAccountExists = "false"
   THEN <<[kind |-> "SystemTransfer", to |-> svc.recipientPubKey]>>
   ELSE << >>)
    \o (IF loc.checkRecipientTokenAccountExists = "false"
        THEN <<[kind |-> "CreateAssociatedTokenAccount", to |-> RecipientTokenAccount]>>
        ELSE << >>)
    \o <<[kind |-> "TokenTransfer", to |-> RecipientTokenAccount]>>

\* C13: every assembled token transaction holds exactly: the funding
\* transfer of the rent-exempt minimum iff the recipient base account is
\* missing, then the create-associated-token-account instruction iff the
\* recipient's token account is missing, then exactly one token transfer
\* of the transfer amount, which is last.
C13_InstructionOrder ==
  (svc.isTokenTransfer /\ loc.transaction.signed) =>
    LET ins == loc.transaction.instructions
    IN /\ loc.recipientAccountExists \in {"true", "false"}
       /\ loc.checkRecipientTokenAccountExists \in {"true", "false"}
       /\ [i \in DOMAIN ins |-> [kind |-> ins[i].kind, to |-> ins[i].to]]
            = ExpectedInstructions
       /\ \A i \in DOMAIN ins :
            /\ ~HasFraction(ins[i].value)
            /\ ins[i].kind = "SystemTransfer" => FFloor(ins[i].value) \in MinRents
            /\ ins[i].kind = "TokenTransfer" =>
                 FFloor(ins[i].value) = loc.transferAmount
       /\ ins[Len(ins)].kind = "TokenTransfer"
       /\ \A i \in 1..(Len(ins) - 1) : ins[i].kind # "TokenTransfer"
       /\ \A i, j \in DOMAIN ins :
            (ins[i].kind = "SystemTransfer"
               /\ ins[j].kind = "CreateAssociatedTokenAccount") => i < j

C13_Witness ==
  /\ loc.transaction.signed /\ Len(loc.transaction.instructions) = 3
  /\ loc.recipientAccountExists = "false"
  /\ loc.checkRecipientTokenAccountExists = "false"
  /\ Count("sendTransaction") = 1

ValidRequest ==
  /\ input.amount.kind = "dec" /\ input.amount.nano > 0
  /\ input.timeout.kind = "absent" \/ (input.timeout.kind = "int" /\ input.timeout.ms > 0)
  /\ NetworkOrDefault(input.network) \in NETWORK_URLS
  /\ input.secret = "validSecret"
  /\ DecodesToPublicKey(input.recipient)

\* C15: a service exists only for requests with amount > 0, timeout > 0 and
\* a known network: a non-numeric or non-positive amount or timeout, an
\* unknown network, an undecodable secret or recipient makes the
\* constructor fail, before any network call.
C15_ConstructorRejects ==
  /\ svc.constructed =>
       ValidRequest /\ svc.timeout > 0 /\ svc.network \in NETWORK_URLS
  /\ (~ValidRequest /\ pc # "main") =>
       ~svc.constructed /\ Failing /\ calls = << >>

\* C16: any stage failure short-circuits the rest of the invocation: an
\* error raised by a stage goes straight to main's catch, and from then on
\* the only step is that catch: no request is issued (no submission after
\* a failed guard, no status query after a failed submission), no local of
\* the path changes and the failed stage is not re-run.
C16_ShortCircuit ==
  [][/\ thrown' # << >> => pc' \in {"mainCatch", "done"}
     /\ thrown # << >> =>
          /\ pc = "mainCatch" /\ pc' = "done"
          /\ calls' = calls /\ loc' = loc /\ svc' = svc /\ thrown' = thrown
     /\ pc = "getLogs" => pc' = "mainCatch" /\ thrown' # << >>]_vars

C16_Witness ==
  /\ pc = "done" /\ thrown = MsgSendFailed /\ Count("sendTransaction") = 1
  /\ Count("getTransaction") = 1 /\ svc.isTokenTransfer

\* C17 as stated: when the network rejects the submission and simulation
\* logs are available, the error that reaches the error output includes
\* those logs.
C17_LogsSurfaced ==
  (pc = "done" /\ loc.txLogs # NoLogs) =>
    /\ out.success = "false"
    /\ \E i \in DOMAIN out.error : out.error[i] = loc.txLogs

\* C17 as amended: when the network rejects the submission the error that
\* reaches the error output is the fixed 'Transaction failed to send'
\* message, which refers to the log and does not include the simulation
\* logs, or, when fetching those logs fails, the error of that fetch.
C17_GenericSendFailure ==
  (Count("sendTransaction") = 1 /\ loc.signature = "" /\ Failing) =>
    /\ \/ thrown = <<"Transaction failed to send. Please check the logs for more details.">>
       \/ thrown = MsgRpc("getTransaction")
            /\ loc.txLogs = NoLogs /\ Count("getTransaction") = 1
    /\ \A i \in DOMAIN thrown : thrown[i] \notin SimulationLogs
    /\ Count("getSignatureStatus") = 0
    /\ pc = "done" =>
         out.success = "false" /\ out.error = thrown /\ out.transaction = ""

C17_Witness ==
  /\ pc = "done" /\ loc.txLogs \in SimulationLogs
  /\ out.error = <<"Transaction failed to send. Please check the logs for more details.">>

\* floor(amount * 10^decimals) for the amount as the decimal numeral typed
ExactTransferAmount == input.amount.nano \div (10 ^ (9 - svc.mint.decimals))

\* C18: the raw amount placed in the transfer instruction is
\* floor(amount * 10^decimals), and converted back to human units it never
\* exceeds the requested amount.
C18_FloorNeverOverSends ==
  (svc.isTokenTransfer /\ TokenTransferValues # {}) =>
    /\ TokenTransferValues = {FromInt(ExactTransferAmount)}
    /\ loc.transferAmount = ExactTransferAmount
    /\ loc.transferAmount * (10 ^ (9 - svc.mint.decimals)) <= input.amount.nano

GuardRejected == IsInsufficientSolMsg(thrown) \/ IsInsufficientTokenMsg(thrown)

Stage(op) ==
  CASE op = "getLatestBlockhash" -> 1
    [] op \in BalanceOps -> 2
    [] op = "sendTransaction" -> 3
    [] op \in {"getSignatureStatus", "getTransaction"} -> 4
    [] OTHER -> 0

C20_FailureSignalled ==
  /\ thrown # << >> => pc \in {"mainCatch", "done"}
  /\ pc = "done" =>
       /\ (failed # << >>) <=> (out.success = "false")
       /\ (thrown # << >>) <=> (out.success = "false")
       /\ out.success = "false" => failed = thrown /\ out.error = thrown
       /\ out.success = "true" => failed = << >>
  /\ pc # "done" => failed = << >>

C20_Witness ==
  /\ pc = "done" /\ failed = MsgInvalidToken("MintA") /\ Count("getMint") = 1

\* C21: a timeout input that is present but not greater than 0 makes the
\* invocation fail before any network call; the invocation never runs with
\* a timeout other than the one supplied.
C21_NonPositiveTimeoutRejected ==
  /\ (input.timeout.kind = "int" /\ input.timeout.ms <= 0 /\ pc # "main") =>
       ~svc.constructed /\ Failing /\ calls = << >>
  /\ (svc.constructed /\ input.timeout.kind = "int") =>
       svc.timeout = input.timeout.ms

\* C22: an absent network input means 'mainnet-beta' and an absent timeout
\* input 300000 ms; a supplied valid value is used unchanged, by the
\* connection and by the polling budget.
C22_Defaults ==
  svc.constructed =>
    /\ input.network = "" => svc.network = "mainnet-beta"
    /\ input.network # "" => svc.network = input.network
    /\ input.timeout.kind = "absent" => svc.timeout = 300000
    /\ (input.timeout.kind = "int" /\ input.timeout.ms > 0) =>
         svc.timeout = input.timeout.ms
    /\ loc.signature # "" =>
         loc.maxAttempts = (svc.timeout + 999) \div 1000

C22_Witness ==
  /\ pc = "done" /\ out.success = "true"
  /\ input.network = "" /\ input.timeout.kind = "absent"
  /\ svc.network = "mainnet-beta" /\ loc.maxAttempts = 300

\* C23: a timeout outcome does not mean that no payment was made: the
\* submitted transaction stays with the ledger, which may apply it after
\* the failure was reported, and once a timeout is raised the engine only
\* reports it: no revocation, no re-check, no re-submission, and no step
\* at all after the report or in answer to the ledger.
C23_TimeoutNotFinal ==
  [][/\ pc = "done" => UNCHANGED <<pc, svc, loc, calls, thrown, out, failed>>
     /\ (pc = "mainCatch" /\ IsTimeoutMsg(thrown) /\ pc' # pc) =>
          /\ pc' = "done" /\ calls' = calls /\ loc' = loc
          /\ out'.success = "false" /\ out'.transaction = ""
          /\ ledger' = ledger
     /\ ledger' # ledger =>
          \/ pc = "sendTransaction" /\ ledger'.state \in {"pending", "rejected"}
          \/ /\ ledger.state = "pending" /\ ledger'.state \in {"applied", "rejected"}
             /\ UNCHANGED <<pc, svc, loc, calls, thrown, out, failed>>]_vars

C23_Witness ==
  /\ pc = "done" /\ out.success = "false" /\ IsTimeoutMsg(thrown)
  /\ ledger.state = "applied" /\ ledger.at = "done"
  /\ loc.status = NullStatus /\ Count("sendTransaction") = 1

\* C24: for a token payout the mint metadata is fetched exactly once,
\* during initialize and before any other request, and never changes
\* afterwards; a native payout never fetches it and its mint stays null;
\* when the fetch fails the invocation fails with the invalid-token error
\* and no balance check, assembly or submission takes place.
C24_MintFetchedOnce ==
  [][/\ svc.mint.set => svc'.mint = svc.mint
     /\ svc'.mint # svc.mint =>
          /\ pc = "validateTokenAddress" /\ svc.isTokenTransfer
          /\ calls = << >> /\ calls' = <<[op |-> "getMint", n |-> 1]>>
          /\ svc'.mint.address = svc.token
     /\ (calls' # calls /\ calls'[Len(calls')].op = "getMint") =>
          pc = "validateTokenAddress" /\ calls = << >> /\ svc.isTokenTransfer
     /\ (svc'.constructed /\ ~svc'.isTokenTransfer) => svc'.mint = NoMint
     /\ pc' = "executePayment" => (svc'.isTokenTransfer <=> svc'.mint.set)
     /\ (pc = "validateTokenAddress" /\ ~svc'.mint.set) =>
          /\ pc' = "mainCatch" /\ thrown' = MsgInvalidToken(svc.token)
          /\ loc' = NoLocals /\ Len(calls') <= 1
     /\ (thrown = MsgInvalidToken(svc.token) /\ svc.constructed) =>
          /\ pc' = "done" /\ out'.success = "false"
          /\ calls' = calls /\ loc' = NoLocals]_vars

C24_Witness ==
  /\ pc = "done" /\ out.success = "true" /\ svc.isTokenTransfer
  /\ svc.mint.set /\ svc.mint.address = svc.token
  /\ calls[1] = [op |-> "getMint", n |-> 1] /\ Count("getMint") = 1

\* C25: the blockhash is fetched and the transaction signed at most once
\* per invocation; the fee estimate is asked for the message of that same
\* transaction and that same signed transaction is the one submitted;
\* nothing is assembled, signed or submitted again during or after the
\* polling.
C25_OneTransaction ==
  [][/\ loc.transaction # NoTransaction =>
          loc'.transaction = loc.transaction /\ loc'.instructions = loc.instructions
     /\ (calls' # calls /\ calls'[Len(calls')].op = "getLatestBlockhash") =>
          /\ pc = "createVersionedTransaction" /\ loc.transaction = NoTransaction
          /\ calls'[Len(calls')].n = 1
          /\ \A i \in DOMAIN calls : calls[i].op # "getLatestBlockhash"
     /\ loc'.transaction # loc.transaction =>
          /\ pc = "createVersionedTransaction"
          /\ loc'.transaction.signed
          /\ loc'.transaction.instructions = loc.instructions
     /\ (calls' # calls /\ calls'[Len(calls')].op = "getFeeForMessage") =>
          loc'.feeFor = loc.transaction /\ loc.transaction.signed
     /\ loc'.feeFor # loc.feeFor => pc = "getFeeForMessage"
     /\ (calls' # calls /\ calls'[Len(calls')].op = "sendTransaction") =>
          /\ loc.transaction.signed /\ loc.feeFor = loc.transaction
          /\ calls'[Len(calls')].n = 1
          /\ ledger.state = "none"
          /\ ledger'.state = "pending" => ledger'.tx = loc.transaction
     /\ ledger.state # "none" => ledger'.tx = ledger.tx
     /\ (loc.signature # "" /\ calls' # calls) =>
          calls'[Len(calls')].op = "getSignatureStatus"]_vars

C25_Witness ==
  /\ pc = "done" /\ out.success = "true"
  /\ loc.transaction.signed /\ loc.feeFor = loc.transaction
  /\ ledger.tx = loc.transaction
  /\ Count("getLatestBlockhash") = 1 /\ Count("getSignatureStatus") >= 2

\* C26: the requests are issued one after the other, each answered before
\* the next is issued; on the token path the existence checks are made in
\* the order sender token account, recipient base account, recipient token
\* account, each one answered before the next is issued and before any
\* instruction that depends on its answer is added.
C26_ChecksInOrder ==
  LET order == <<SenderTokenAccount, svc.recipientPubKey, RecipientTokenAccount>>
      n     == Len(loc.checked)
  IN /\ n <= 3
     /\ \A i \in DOMAIN loc.checked : loc.checked[i] = order[i]
     /\ Count("getAccountInfo") = n
     /\ n >= 2 => loc.senderAccountExists = "true"
     /\ n >= 3 => loc.recipientAccountExists # "undefined"
     /\ loc.senderAccountExists # "undefined" => n >= 1
     /\ loc.recipientAccountExists # "undefined" => n >= 2
     /\ loc.checkRecipientTokenAccountExists # "undefined" => n = 3
     /\ Count("getMinimumBalanceForRentExemption") > 0 =>
          loc.recipientAccountExists = "false"
     /\ (n = 3 /\ Count("getMinimumBalanceForRentExemption") = 0) =>
          loc.recipientAccountExists = "true"
     /\ \A i \in DOMAIN loc.instructions :
          /\ loc.instructions[i].kind = "SystemTransfer" =>
               loc.recipientAccountExists = "false"
          /\ loc.instructions[i].kind = "CreateAssociatedTokenAccount" =>
               loc.checkRecipientTokenAccountExists = "false"
          /\ loc.instructions[i].kind = "TokenTransfer" =>
               loc.checkRecipientTokenAccountExists # "undefined"
     /\ loc.transaction # NoTransaction => n = 3

C26_Witness ==
  /\ pc = "done" /\ out.success = "true"
  /\ loc.checked = <<SenderTokenAccount, svc.recipientPubKey, RecipientTokenAccount>>
  /\ loc.recipientAccountExists = "false"
  /\ loc.checkRecipientTokenAccountExists = "false"
  /\ Len(loc.instructions) = 3

\* C27: with a timeout > 0 confirmTransaction issues at least one status
\* query and at most ceil(timeout / 1000); no status query is issued after
\* one that returned an on-chain error or 'confirmed', nor after the
\* timeout was raised: the three outcomes end the invocation.
C27_PollingEnds ==
  [][LET last == calls'[Len(calls')]
         terminal == \/ loc.status.present /\ loc.status.err # NoErr
                     \/ loc.status.confirmationStatus = "confirmed"
                     \/ IsTimeoutMsg(thrown)
     IN /\ (calls' # calls /\ last.op = "getSignatureStatus") =>
             /\ pc = "getSignatureStatus" /\ svc.timeout > 0
             /\ last.n <= (svc.timeout + 999) \div 1000
             /\ ~terminal /\ thrown = << >>
        /\ (pc = "sendTransaction" /\ loc'.signature # "") =>
             pc' = "getSignatureStatus" /\ thrown' = << >>
        /\ (loc.signature # "" /\ pc' \in {"mainReturn", "mainCatch", "done"}) =>
             last.op = "getSignatureStatus" /\ last.n >= 1
        /\ terminal =>
             /\ calls' = calls /\ loc' = loc
             /\ pc \in {"mainReturn", "mainCatch"} /\ pc' = "done"
             /\ out'.success = "true" <=>
                  (loc.status.err = NoErr /\ ~IsTimeoutMsg(thrown))
        /\ pc = "done" => pc' = "done" /\ calls' = calls]_vars

C27_Witness ==
  /\ pc = "done" /\ svc.timeout = 1001
  /\ loc.status.present /\ loc.status.err # NoErr
  /\ loc.attempts = 1 /\ Count("getSignatureStatus") = 2

\* C28: passing the balance guards does not guarantee success: when the
\* ledger rejects the submitted transaction, at simulation or at
\* execution, the invocation never reports success and ends in failure
\* with the submission error, the on-chain error or the timeout (or the
\* error of a request that itself failed).
C28_RejectedNeverSucceeds ==
  ledger.state = "rejected" =>
    /\ loc.transaction.signed /\ loc.feeFor = loc.transaction
    /\ calls # << >> /\ ledger.tx = loc.transaction
    /\ out.success # "true" /\ pc # "mainReturn"
    /\ pc = "done" =>
         /\ out.success = "false" /\ failed = thrown
         /\ \/ thrown = MsgSendFailed
            \/ IsOnChainFailureMsg(thrown)
            \/ IsTimeoutMsg(thrown)
            \/ thrown \in {MsgRpc("getTransaction"), MsgRpc("getSignatureStatus")}
    /\ ledger.at = "simulation" =>
         loc.signature = "" /\ Count("getSignatureStatus") = 0

C28_Witness ==
  /\ pc = "done" /\ out.success = "false"
  /\ ledger.state = "rejected" /\ ledger.at = "simulation"
  /\ thrown = MsgSendFailed /\ loc.txLogs \in SimulationLogs

\* C29: the on-chain error is tested before the commitment: a status that
\* carries an error together with 'confirmed' or 'finalized' ends the
\* polling in failure with that error, on whichever attempt it arrives,
\* and is never taken as the confirmation.
C29_ErrorBeforeCommitment ==
  (/\ loc.status.present /\ loc.status.err # NoErr
   /\ loc.status.confirmationStatus \in {"confirmed", "finalized"}) =>
    /\ pc \in {"mainCatch", "done"}
    /\ thrown = MsgTransactionFailed(loc.status.err)
    /\ loc.commitment # "confirmed"
    /\ out.success # "true"
    /\ pc = "done" => out.success = "false" /\ failed = thrown

C29_Witness ==
  /\ pc = "done" /\ out.success = "false"
  /\ loc.status.err # NoErr /\ loc.status.confirmationStatus = "confirmed"
  /\ loc.attempts = 1 /\ IsOnChainFailureMsg(thrown)

\* C30: every token transfer that reaches submission moves at least one
\* raw unit: the amount of the submitted transfer instruction,
\* floor(amount * 10^decimals), is at least 1.
C30_AtLeastOneRawUnit ==
  (svc.isTokenTransfer /\ ledger.state # "none") =>
    /\ loc.transferAmount >= 1
    /\ \A i \in DOMAIN ledger.tx.instructions :
         ledger.tx.instructions[i].kind = "TokenTransfer" =>
           ~FLess(ledger.tx.instructions[i].value, FromInt(1))

\* C31: when a status query itself raises, the polling stops at once and
\* the invocation fails with that error: the failed query is the last
\* request, whatever is left of the attempt budget, the outcome is not
\* the timeout and never success.
C31_StatusQueryFailure ==
  loc.statusError =>
    /\ pc \in {"mainCatch", "done"}
    /\ thrown = MsgRpc("getSignatureStatus")
    /\ calls[Len(calls)] = [op |-> "getSignatureStatus", n |-> loc.attempts + 1]
    /\ loc.queried = loc.signature
    /\ out.success # "true"
    /\ pc = "done" =>
         out.success = "false" /\ out.error = thrown /\ failed = thrown

C31_Witness ==
  /\ pc = "done" /\ loc.statusError /\ out.success = "false"
  /\ loc.attempts = 1 /\ loc.maxAttempts = 300
  /\ thrown = MsgRpc("getSignatureStatus")

\* the existence lookups that were answered
LookupsAnswered ==
  (IF loc.senderAccountExists # "undefined" THEN 1 ELSE 0)
    + (IF loc.recipientAccountExists # "undefined" THEN 1 ELSE 0)
    + (IF loc.checkRecipientTokenAccountExists # "undefined" THEN 1 ELSE 0)

\* C32: when an account-existence lookup itself raises, the token path
\* aborts with 'Failed to check account existence: <address>' and nothing
\* is assembled: the failure is not taken as 'account does not exist', so
\* it gives neither the missing-sender-account error nor a funding or
\* account-creation instruction, and no request follows it.
C32_LookupFailureAborts ==
  LookupsAnswered < Len(loc.checked) =>
    /\ Len(loc.checked) = LookupsAnswered + 1
    /\ pc \in {"mainCatch", "done"}
    /\ thrown = MsgCheckExistence(loc.checked[Len(loc.checked)])
    /\ thrown # MsgNoSenderTokenAccount
    /\ calls[Len(calls)].op = "getAccountInfo"
    /\ loc.transaction = NoTransaction /\ ledger = NoLedger
    /\ \A i \in DOMAIN loc.instructions :
         /\ loc.instructions[i].kind = "SystemTransfer"
         /\ loc.recipientAccountExists = "false"
    /\ loc.recipientAccountExists = "undefined" => loc.instructions = << >>
    /\ out.success # "true"

C32_Witness ==
  /\ pc = "done" /\ out.success = "false"
  /\ Len(loc.checked) = 2 /\ loc.recipientAccountExists = "undefined"
  /\ thrown = MsgCheckExistence(svc.recipientPubKey)
  /\ loc.instructions = << >>

\* C33: when the fee request is answered with no value (null) or with the
\* value 0, the native-balance guard fails with 'Failed to get transaction
\* fee'; the sender balance is not read and nothing is submitted: the fee
\* request stays the last request of the invocation.
C33_NoFeeValue ==
  [][LET last == calls'[Len(calls')]
     IN /\ (/\ pc = "getFeeForMessage"
             /\ thrown' # MsgRpc("getFeeForMessage")
             /\ loc'.txFee \in {NullFee, 0}) =>
               /\ thrown' = MsgFee /\ pc' = "mainCatch"
               /\ last.op = "getFeeForMessage"
               /\ ledger' = NoLedger
        /\ (pc = "getFeeForMessage" /\ pc' = "getBalance") => loc'.txFee > 0
        /\ (calls' # calls /\ last.op \in {"getBalance", "sendTransaction"}) =>
               thrown = << >> /\ thrown # MsgFee
        /\ (calls' # calls /\ last.op = "getBalance") => loc.txFee > 0
        /\ thrown = MsgFee =>
               /\ pc = "mainCatch" /\ pc' = "done" /\ calls' = calls
               /\ calls[Len(calls)].op = "getFeeForMessage"
               /\ loc.lamports = -1 /\ loc.signature = ""
               /\ ledger' = NoLedger
               /\ out'.success = "false" /\ out'.error = MsgFee]_vars

C33_Witness ==
  /\ pc = "done" /\ thrown = MsgFee /\ loc.txFee = 0
  /\ out.success = "false" /\ out.error = MsgFee
  /\ Count("getBalance") = 0 /\ Count("sendTransaction") = 0

\* the requests only the token path makes
TokenPathOps == {"getMint", "getAccountInfo", "getMinimumBalanceForRentExemption",
                 "getTokenAccountBalance"}

\* C34: exactly one transfer path runs, chosen by the token designator
\* alone: 'SOL' in any letter case selects the native path, which never
\* fetches mint metadata, never checks token accounts and assembles
\* exactly one native transfer instruction; any other designator selects
\* the token path, whose transaction ends with the token transfer.
C34_OnePath ==
  svc.constructed =>
    /\ svc.isTokenTransfer <=> input.token \notin {"SOL", "sol"}
    /\ ~svc.isTokenTransfer =>
         /\ svc.mint = NoMint /\ loc.checked = << >> /\ loc.tokenRaw = -1
         /\ \A i \in DOMAIN calls : calls[i].op \notin TokenPathOps
         /\ Len(loc.instructions) <= 1
         /\ \A i \in DOMAIN loc.instructions :
              /\ loc.instructions[i].kind = "SystemTransfer"
              /\ loc.instructions[i].to = svc.recipientPubKey
         /\ pc \notin {"main", "initialize", "executePayment", "mainCatch", "done"} =>
              Len(loc.instructions) = 1
         /\ loc.transaction # NoTransaction =>
              Len(loc.transaction.instructions) = 1
    /\ svc.isTokenTransfer =>
         /\ calls # << >> => calls[1].op = "getMint"
         /\ loc.instructions # << >> => svc.mint.set /\ Len(loc.checked) >= 2
         /\ loc.transaction # NoTransaction =>
              /\ Len(loc.checked) = 3
              /\ loc.transaction.instructions[Len(loc.transaction.instructions)].kind
                   = "TokenTransfer"
              /\ \A i \in DOMAIN loc.transaction.instructions :
                   loc.transaction.instructions[i].kind = "SystemTransfer" =>
                     loc.recipientAccountExists = "false"

C34_Witness ==
  /\ pc = "done" /\ out.success = "true" /\ input.token = "sol"
  /\ ~svc.isTokenTransfer /\ Len(loc.transaction.instructions) = 1
  /\ loc.transaction.instructions[1].kind = "SystemTransfer"
  /\ calls[1].op = "getLatestBlockhash"

\* C35: provided every network call returns or raises, every invocation
\* of main ends, and stays, in exactly one outcome with its outputs
\* written: success, or one failure handed to setFailed.  The polling
\* loop is the only step with a condition besides its position, and it is
\* never entered with the attempts used up.
C35_Terminates ==
  /\ [](pc \in Positions)
  /\ [](pc = "getSignatureStatus" => loc.attempts < loc.maxAttempts)
  /\ <>[](/\ pc = "done"
          /\ {"success", "error"} \subseteq out.written
          /\ out.success \in {"true", "false"}
          /\ out.success = "true" <=> (thrown = << >> /\ failed = << >>)
          /\ out.success = "false" <=> (thrown # << >> /\ failed = thrown))

C35_Witness ==
  /\ pc = "done" /\ out.success = "false" /\ IsTimeoutMsg(thrown)
  /\ svc.timeout = 1000 * MaxSeconds /\ loc.attempts = loc.maxAttempts
  /\ loc.attempts >= 2

\* C36: in the confirmation loop exactly one sleep of 1 second lies between
\* two consecutive status queries, so no two queries follow each other
\* directly, and no sleep follows a query that returned an on-chain error
\* or 'confirmed' (nor one that raised); the last sleep is the one before
\* the timeout.
C36_OneSleepBetweenQueries ==
  LET n == IF calls # << >> /\ calls[Len(calls)].op = "getSignatureStatus"
           THEN calls[Len(calls)].n ELSE 0
  IN /\ loc.signature = "" => loc.slept = 0
     /\ loc.signature # "" =>
          /\ pc = "getSignatureStatus" => loc.slept = 1000 * n
          /\ pc = "sleep" => n >= 1 /\ loc.slept = 1000 * (n - 1)
          /\ pc \in {"mainReturn", "mainCatch", "done"} =>
               /\ n >= 1
               /\ loc.slept = 1000 * (IF IsTimeoutMsg(thrown) THEN n ELSE n - 1)

C36_Witness ==
  /\ pc = "done" /\ out.success = "true"
  /\ Count("getSignatureStatus") = 3 /\ loc.slept = 2000

\* C37: executePayment called for a token request whose initialize has not
\* set the mint fails with 'Token mint information not initialized'
\* before any network call; nothing is assembled or submitted.
C37_MintNotInitialized ==
  (svc.constructed /\ svc.isTokenTransfer /\ ~svc.mint.set) =>
    /\ loc = NoLocals /\ ledger = NoLedger
    /\ calls \in {<< >>, <<[op |-> "getMint", n |-> 1]>>}
    /\ pc \in {"initialize", "validateTokenAddress", "executePayment",
               "mainCatch", "done"}
    /\ out.success # "true"
    /\ (calls = << >> /\ pc \in {"mainCatch", "done"}) =>
         thrown = MsgMintNotInitialized
    /\ calls # << >> => thrown = MsgInvalidToken(svc.token)

C37_Witness ==
  /\ pc = "done" /\ thrown = MsgMintNotInitialized
  /\ svc.isTokenTransfer /\ ~svc.mint.set
  /\ calls = << >> /\ loc = NoLocals
  /\ out.success = "false" /\ out.error = MsgMintNotInitialized

\* C38: on the token path the native-balance guard comes before the
\* token-balance guard: a sender whose native balance does not cover the
\* fee fails with the native insufficient-funds error and the token
\* balance is never queried, whatever it is; the token balance is only
\* queried right after a native balance that passed.
C38_NativeGuardFirst ==
  svc.isTokenTransfer =>
    /\ (loc.lamports >= 0 /\ loc.lamports < loc.txFee) =>
         /\ pc \in {"mainCatch", "done"} /\ IsInsufficientSolMsg(thrown)
         /\ loc.tokenRaw = -1
         /\ calls[Len(calls)].op = "getBalance"
         /\ out.success # "true"
    /\ IsInsufficientSolMsg(thrown) =>
         calls[Len(calls)].op = "getBalance" /\ loc.tokenRaw = -1
    /\ \A i \in DOMAIN calls :
         calls[i].op = "getTokenAccountBalance" =>
           /\ i > 1 /\ calls[i - 1] = [op |-> "getBalance", n |-> 1]
           /\ calls[i].n = 1
           /\ ~IsInsufficientSolMsg(thrown)
    /\ loc.tokenRaw # -1 => loc.lamports >= loc.txFee /\ loc.txFee > 0

C38_Witness ==
  /\ pc = "done" /\ svc.isTokenTransfer /\ out.success = "false"
  /\ IsInsufficientSolMsg(thrown)
  /\ loc.lamports >= 0 /\ loc.lamports < loc.txFee
  /\ loc.tokenRaw = -1 /\ Count("getTokenAccountBalance") = 0

====
